---------------------------- MODULE Spec2Model ----------------------------
(***************************************************************************)
(* A model of the content-based image retrieval code:                      *)
(*   Code/SimilarityRanking.py  Similarity.rankings, Similarity.chi2_distance *)
(*   Code/ImageDescriptors.py   Descriptors.color_descriptor (the region   *)
(*                              masks), Descriptors.shape_descriptor (the  *)
(*                              data flow into cv2.moments)                *)
(*                                                                         *)
(* Numbers.  Feature values are multiples of a grid unit of eps/2 = 5e-8,  *)
(* so the eps of chi2_distance (1e-7) is EpsUnits = 2 grid units and a     *)
(* distance is an exact rational <<numerator, denominator>> in lowest      *)
(* terms with a positive denominator, measured in grid units.  Python      *)
(* floats are modelled by these rationals: rounding is not modelled.       *)
(*                                                                         *)
(* Four specifications share the variables; each one runs one operation    *)
(* and leaves the variables of the others at their idle values:            *)
(*   SpecRank   Similarity.rankings over a store read row by row           *)
(*   SpecChi    Similarity.chi2_distance on pairs of vectors               *)
(*   SpecColor  the five region masks of Descriptors.color_descriptor      *)
(*   SpecShape  the data flow of Descriptors.shape_descriptor              *)
(***************************************************************************)
EXTENDS Integers, Sequences, FiniteSets

VARIABLES
    \* Similarity.rankings
    rank_pc,        \* "idle" | "scan" | "done"
    store,          \* the rows the csv reader has yielded so far, in scan order
    query_feature,  \* the query vector
    metric,         \* the metric argument
    limit,          \* the limit argument (read only by the return statement)
    results,        \* the results dict, as its items <<key, value>> in insertion order
    dist,           \* the local variable dist: [bound, value], unbound until assigned
    ranking,        \* the outcome of the call: [err, value]
    \* Similarity.chi2_distance
    chi_pc,         \* "idle" | "ab" | "ba" | "aa" | "done"
    histA, histB,   \* the two argument vectors
    chiAB, chiBA, chiAA,   \* outcomes of chi2_distance(A,B), (B,A), (A,A)
    \* Descriptors.color_descriptor
    color_pc,       \* "idle" | "ellipse" | "corners" | "center" | "done"
    shape,          \* img.shape[:2] as <<h, w>>
    ellipMask,      \* the set of pixels <<x, y>> set to 255 in ellipMask
    masks,          \* the masks handed to self.histogram, in call order
    \* Descriptors.shape_descriptor
    shape_pc,       \* "idle" | "gray" | "sobel" | "polar" | "border" | "moments" | "done"
    ksize, border,  \* the arguments
    img, gx, gy, mag,      \* the local arrays, each described by how it was made
    momentsOf       \* the array handed to cv2.moments

rankVars  == <<rank_pc, store, query_feature, metric, limit, results, dist, ranking>>
chiVars   == <<chi_pc, histA, histB, chiAB, chiBA, chiAA>>
colorVars == <<color_pc, shape, ellipMask, masks>>
shapeVars == <<shape_pc, ksize, border, img, gx, gy, mag, momentsOf>>
vars      == <<rankVars, chiVars, colorVars, shapeVars>>

---------------------------------------------------------------------------
(* Bounds of the model.                                                    *)

\* feature values are the grid values -MaxNeg .. MaxVal in SpecChi
MaxNeg == 1
\* the largest feature value, in grid units
MaxVal == 2
\* the longest vector handed to chi2_distance in SpecChi
MaxLen == 2
\* the most rows the store holds
MaxRows == 3
\* the largest limit argument
MaxLimit == 3
\* the smallest and the largest image width and height
MinSide == 4
MaxSide == 8

\* eps = 1e-7 of chi2_distance, in grid units of 5e-8
EpsUnits == 2

---------------------------------------------------------------------------
(* Exact rationals.                                                        *)

Abs(n) == IF n < 0 THEN -n ELSE n

Min(a, b) == IF a <= b THEN a ELSE b

RECURSIVE GCD(_, _)
GCD(a, b) == IF b = 0 THEN a ELSE GCD(b, a % b)

\* the rational n/d (d # 0) in lowest terms with a positive denominator
Rat(n, d) ==
    LET g == GCD(Abs(n), Abs(d))
        s == IF d < 0 THEN -1 ELSE 1
    IN  <<(s * n) \div g, (s * d) \div g>>

RAdd(x, y) == Rat(x[1] * y[2] + y[1] * x[2], x[2] * y[2])

RLess(x, y) == x[1] * y[2] < y[1] * x[2]

RZero == <<0, 1>>

---------------------------------------------------------------------------
(* Similarity.chi2_distance                                                *)

\* zip(histA, histB): the pairs up to the shorter length
Zip(a, b) == [i \in 1..Min(Len(a), Len(b)) |-> <<a[i], b[i]>>]

\* the denominator a + b + eps of one term
Chi2DenomNoB(a, b) == a + EpsUnits
Chi2Denom(a, b) == a + b + EpsUnits

\* one term ((a-b) ** 2) / (a + b + eps), where the denominator is not 0
Chi2Term(a, b) == Rat((a - b) * (a - b), Chi2Denom(a, b))

RECURSIVE SumTerms(_, _)
SumTerms(pairs, i) ==
    IF i > Len(pairs) THEN RZero
    ELSE RAdd(Chi2Term(pairs[i][1], pairs[i][2]), SumTerms(pairs, i + 1))

\* 0.5 * np.sum([...]); a float division by zero raises ZeroDivisionError
chi2_distance(a, b) ==
    LET pairs == Zip(a, b)
    IN  IF \E i \in 1..Len(pairs) : Chi2Denom(pairs[i][1], pairs[i][2]) = 0
        THEN [err |-> "ZeroDivisionError", value |-> RZero]
        ELSE LET s == SumTerms(pairs, 1)
             IN  [err |-> "none", value |-> Rat(s[1], 2 * s[2])]

---------------------------------------------------------------------------
(* Similarity.rankings                                                     *)

\* the image identifiers of the store (row[0])
Ids == {"img1", "img2", "img3"}

\* the order Python's string comparison gives the identifiers
IdOrd(id) == CASE id = "img1" -> 1 [] id = "img2" -> 2 [] id = "img3" -> 3

\* the metric arguments: the four documented names and one that is none of them
NamedMetrics == {"chi-squared", "euclidean", "cosine", "minkowski"}
Metrics == NamedMetrics \cup {"manhattan"}

\* the feature vectors of a row (row[1:] parsed by float): a row may hold
\* the identifier alone, or one value
RowVectors == {<<>>} \cup {<<v>> : v \in 0..MaxVal}

\* the query vectors
QueryVectors == {<<v>> : v \in 0..MaxVal}

Unbound == [bound |-> FALSE, value |-> RZero]

\* lines 67-74: the if/elif chain; only the chi-squared branch assigns dist,
\* the other three branches are "pass" and any other metric matches no branch
MetricBranch(m, d, f, q) ==
    IF m = "chi-squared"
    THEN LET c == chi2_distance(f, q)
         IN  [err |-> c.err, dist |-> [bound |-> TRUE, value |-> c.value]]
    ELSE [err |-> "none", dist |-> d]

\* position of key k among the dict's items, 0 when absent
KeyIndex(d, k) ==
    IF \E i \in 1..Len(d) : d[i][1] = k
    THEN CHOOSE i \in 1..Len(d) : d[i][1] = k
    ELSE 0

\* results[k] = v: an existing key keeps its place and takes the new value
DictSetKeepFirst(d, k, v) ==
    IF KeyIndex(d, k) = 0 THEN Append(d, <<k, v>>) ELSE d
DictSet(d, k, v) ==
    IF KeyIndex(d, k) = 0
    THEN Append(d, <<k, v>>)
    ELSE [d EXCEPT ![KeyIndex(d, k)] = <<k, v>>]

\* [ (v, k) for (k, v) in results.items() ]
Swapped(d) == [i \in 1..Len(d) |-> <<d[i][2], d[i][1]>>]

\* Python's order on (distance, identifier) tuples
TupleLess(p, q) ==
    \/ RLess(p[1], q[1])
    \/ p[1] = q[1] /\ IdOrd(p[2]) < IdOrd(q[2])

\* x put into the sorted sequence s, after the elements not greater than it
RECURSIVE InsertSorted(_, _)
InsertSorted(s, x) ==
    IF s = <<>> THEN <<x>>
    ELSE IF TupleLess(x, Head(s)) THEN <<x>> \o s
    ELSE <<Head(s)>> \o InsertSorted(Tail(s), x)

RECURSIVE SortFrom(_, _)
SortFrom(s, i) ==
    IF i = 0 THEN <<>> ELSE InsertSorted(SortFrom(s, i - 1), s[i])

\* sorted(list): ascending, stable
SortedUnsorted(s) == s
Sorted(s) == SortFrom(s, Len(s))

\* s[lo:hi] for 0 <= lo and 0 <= hi
PySlice(s, lo, hi) == SubSeq(s, lo + 1, Min(hi, Len(s)))

\* lines 84-88: sort the items and return results[1:limit]
RankingsReturnIndexed(d, lim) ==
    LET s == Sorted(Swapped(d))
    IN  IF s = <<>> THEN [err |-> "IndexError", value |-> <<>>]
        ELSE [err |-> "none", value |-> <<s[1]>> \o PySlice(s, 1, lim)]
RankingsReturn(d, lim) ==
    [err |-> "none", value |-> PySlice(Sorted(Swapped(d)), 1, lim)]

\* one turn of the loop of lines 59-79 on the row <<id, f>>
RowStep(id, f) ==
    LET b == MetricBranch(metric, dist, f, query_feature)
    IN  IF b.err # "none" THEN [err |-> b.err, dist |-> dist, results |-> results]
        ELSE IF ~b.dist.bound
        THEN [err |-> "UnboundLocalError", dist |-> b.dist, results |-> results]
        ELSE [err |-> "none", dist |-> b.dist,
              results |-> DictSet(results, id, b.dist.value)]

RankIdle ==
    /\ rank_pc = "idle" /\ store = <<>> /\ query_feature = <<>>
    /\ metric = "chi-squared" /\ limit = 0 /\ results = <<>>
    /\ dist = Unbound /\ ranking = [err |-> "none", value |-> <<>>]

\* a call rankings(query_feature, metric, limit): lines 31-56
RankInit ==
    /\ rank_pc = "scan"
    /\ store = <<>>
    /\ query_feature \in QueryVectors
    /\ metric \in Metrics
    /\ limit \in 1..MaxLimit
    /\ results = <<>>
    /\ dist = Unbound
    /\ ranking = [err |-> "none", value |-> <<>>]

\* the reader yields a row and the loop body scores it (lines 59-79)
ReadRowScored ==
    /\ rank_pc = "scan"
    /\ Len(store) < MaxRows
    /\ \E id \in Ids, f \in RowVectors :
         LET r == RowStep(id, f)
         IN  /\ r.err = "none"
             /\ store' = Append(store, <<id, f>>)
             /\ dist' = r.dist
             /\ results' = r.results
    /\ UNCHANGED <<rank_pc, query_feature, metric, limit, ranking>>

\* the reader yields a row and the loop body raises (lines 59-79)
ReadRowRaises ==
    /\ rank_pc = "scan"
    /\ Len(store) < MaxRows
    /\ \E id \in Ids, f \in RowVectors :
         LET r == RowStep(id, f)
         IN  /\ r.err # "none"
             /\ store' = Append(store, <<id, f>>)
             /\ ranking' = [err |-> r.err, value |-> <<>>]
    /\ rank_pc' = "done"
    /\ UNCHANGED <<query_feature, metric, limit, results, dist>>

\* the reader is exhausted: sort, slice and return (lines 81-88)
EndOfStore ==
    /\ rank_pc = "scan"
    /\ ranking' = RankingsReturn(results, limit)
    /\ rank_pc' = "done"
    /\ UNCHANGED <<store, query_feature, metric, limit, results, dist>>

RankNext ==
    \/ ReadRowScored /\ UNCHANGED <<chiVars, colorVars, shapeVars>>
    \/ ReadRowRaises /\ UNCHANGED <<chiVars, colorVars, shapeVars>>
    \/ EndOfStore /\ UNCHANGED <<chiVars, colorVars, shapeVars>>

---------------------------------------------------------------------------
(* Similarity.chi2_distance on its own                                     *)

ChiValues == (0 - MaxNeg)..MaxVal

ChiVectors == UNION {[1..n -> ChiValues] : n \in 1..MaxLen}

ChiNone == [err |-> "none", value |-> RZero]

ChiIdle ==
    /\ chi_pc = "idle" /\ histA = <<>> /\ histB = <<>>
    /\ chiAB = ChiNone /\ chiBA = ChiNone /\ chiAA = ChiNone

ChiInit ==
    /\ chi_pc = "ab"
    /\ histA \in ChiVectors
    /\ histB \in {b \in ChiVectors : Len(b) = Len(histA)}
    /\ chiAB = ChiNone /\ chiBA = ChiNone /\ chiAA = ChiNone

CallAB ==
    /\ chi_pc = "ab"
    /\ chiAB' = chi2_distance(histA, histB)
    /\ chi_pc' = "ba"
    /\ UNCHANGED <<histA, histB, chiBA, chiAA>>

CallBA ==
    /\ chi_pc = "ba"
    /\ chiBA' = chi2_distance(histB, histA)
    /\ chi_pc' = "aa"
    /\ UNCHANGED <<histA, histB, chiAB, chiAA>>

CallAA ==
    /\ chi_pc = "aa"
    /\ chiAA' = chi2_distance(histA, histA)
    /\ chi_pc' = "done"
    /\ UNCHANGED <<histA, histB, chiAB, chiBA>>

ChiNext ==
    \/ CallAB /\ UNCHANGED <<rankVars, colorVars, shapeVars>>
    \/ CallBA /\ UNCHANGED <<rankVars, colorVars, shapeVars>>
    \/ CallAA /\ UNCHANGED <<rankVars, colorVars, shapeVars>>

---------------------------------------------------------------------------
(* Descriptors.color_descriptor: the region masks                          *)

\* the pixels <<x, y>> of an image of height h and width w
Pixels(h, w) == (0..(w - 1)) \X (0..(h - 1))

\* (cX, cY) = (int(w*0.5), int(h*0.5))
Center(h, w) == <<w \div 2, h \div 2>>

\* the four corner segments (startX, endX, startY, endY), in the code's order
Segments(h, w) ==
    LET cX == Center(h, w)[1]
        cY == Center(h, w)[2]
    IN  << <<0, cX, 0, cY>>, <<cX, w, 0, cY>>, <<cX, w, cY, h>>, <<0, cX, cY, h>> >>

\* (axesX, axesY) = (int(w*0.75) // 2, int(h*0.75) // 2)
Axes(h, w) == <<((3 * w) \div 4) \div 2, ((3 * h) \div 4) \div 2>>

\* cv2.ellipse(mask, (cX, cY), (axesX, axesY), 0, 0, 360, 255, -1): the
\* filled axis-aligned ellipse; it never leaves the box cX-axesX..cX+axesX
\* by cY-axesY..cY+axesY
EllipsePixels(h, w) ==
    LET cX == Center(h, w)[1]
        cY == Center(h, w)[2]
        aX == Axes(h, w)[1]
        aY == Axes(h, w)[2]
    IN  {p \in Pixels(h, w) :
            /\ Abs(p[1] - cX) <= aX
            /\ Abs(p[2] - cY) <= aY
            /\ (p[1] - cX) * (p[1] - cX) * aY * aY
                 + (p[2] - cY) * (p[2] - cY) * aX * aX <= aX * aX * aY * aY}

\* cv2.rectangle(mask, (startX, startY), (endX, endY), 255, -1): the filled
\* rectangle holds both corner points, clipped to the image
RectanglePixels(seg, h, w) ==
    {p \in Pixels(h, w) :
        /\ seg[1] <= p[1] /\ p[1] <= seg[2]
        /\ seg[3] <= p[2] /\ p[2] <= seg[4]}

\* cv2.subtract on masks of 0 and 255 (saturating): 255 only where a is 255
\* and b is 0
Subtract(a, b) == a \ b

\* lines 70-72: the mask of one corner
CornerMask(seg, h, w, ellip) == Subtract(RectanglePixels(seg, h, w), ellip)

ColorIdle ==
    /\ color_pc = "idle" /\ shape = <<0, 0>> /\ ellipMask = {} /\ masks = <<>>

\* a call color_descriptor(image): lines 49-60
ColorInit ==
    /\ color_pc = "ellipse"
    /\ shape \in (MinSide..MaxSide) \X (MinSide..MaxSide)
    /\ ellipMask = {}
    /\ masks = <<>>

\* lines 63-65
DrawEllipse ==
    /\ color_pc = "ellipse"
    /\ ellipMask' = EllipsePixels(shape[1], shape[2])
    /\ color_pc' = "corners"
    /\ UNCHANGED <<shape, masks>>

\* one turn of the loop of lines 68-76
CornerStep ==
    /\ color_pc = "corners"
    /\ LET seg == Segments(shape[1], shape[2])[Len(masks) + 1]
       IN  masks' = Append(masks, CornerMask(seg, shape[1], shape[2], ellipMask))
    /\ color_pc' = IF Len(masks) + 1 = 4 THEN "center" ELSE "corners"
    /\ UNCHANGED <<shape, ellipMask>>

\* lines 79-83: the histogram of the ellipse itself
CenterStep ==
    /\ color_pc = "center"
    /\ masks' = Append(masks, ellipMask)
    /\ color_pc' = "done"
    /\ UNCHANGED <<shape, ellipMask>>

ColorNext ==
    \/ DrawEllipse /\ UNCHANGED <<rankVars, chiVars, shapeVars>>
    \/ CornerStep /\ UNCHANGED <<rankVars, chiVars, shapeVars>>
    \/ CenterStep /\ UNCHANGED <<rankVars, chiVars, shapeVars>>

---------------------------------------------------------------------------
(* Descriptors.shape_descriptor: which array reaches cv2.moments           *)
(* Line 161 reads "mag, _ cv2.cartToPolar(gx, gy)"; it is modelled as the  *)
(* assignment mag, _ = cv2.cartToPolar(gx, gy) it stands for.              *)

\* an array, described by what it holds and its size
Array(kind, h, w, pad, padValue) ==
    [kind |-> kind, h |-> h, w |-> w, pad |-> pad, padValue |-> padValue]

NoArray == Array("none", 0, 0, 0, 0)

\* the kernel sizes cv2.Sobel takes: odd, 1 to 31
KSizes == {k \in 1..31 : k % 2 = 1}

\* cv2.copyMakeBorder(a, 15, 15, 15, 15, cv2.BORDER_CONSTANT, value=255)
CopyMakeBorder(a) == Array(a.kind, a.h + 30, a.w + 30, 15, 255)

ShapeIdle ==
    /\ shape_pc = "idle" /\ ksize = 0 /\ border = FALSE
    /\ img = NoArray /\ gx = NoArray /\ gy = NoArray /\ mag = NoArray
    /\ momentsOf = NoArray

\* a call shape_descriptor(image, ksize, border)
ShapeInit ==
    /\ shape_pc = "gray"
    /\ ksize \in KSizes
    /\ border \in BOOLEAN
    /\ \E h \in MinSide..MaxSide, w \in MinSide..MaxSide : img = Array("bgr", h, w, 0, 0)
    /\ gx = NoArray /\ gy = NoArray /\ mag = NoArray
    /\ momentsOf = NoArray

\* line 153: img = cv2.cvtColor(image, cv2.COLOR_BGR2GRAY)
CvtGray ==
    /\ shape_pc = "gray"
    /\ img' = Array("gray", img.h, img.w, 0, 0)
    /\ shape_pc' = "sobel"
    /\ UNCHANGED <<ksize, border, gx, gy, mag, momentsOf>>

\* lines 156-157: the two Sobel derivatives of img
Sobel ==
    /\ shape_pc = "sobel"
    /\ gx' = Array("sobel_x", img.h, img.w, 0, 0)
    /\ gy' = Array("sobel_y", img.h, img.w, 0, 0)
    /\ shape_pc' = "polar"
    /\ UNCHANGED <<ksize, border, img, mag, momentsOf>>

\* line 161: the magnitude of (gx, gy)
CartToPolar ==
    /\ shape_pc = "polar"
    /\ mag' = Array("magnitude", gx.h, gx.w, 0, 0)
    /\ shape_pc' = "border"
    /\ UNCHANGED <<ksize, border, img, gx, gy, momentsOf>>

\* lines 164-169 with border true: img is rebound to the padded magnitude
AddBorder ==
    /\ shape_pc = "border"
    /\ border
    /\ img' = CopyMakeBorder(mag)
    /\ shape_pc' = "moments"
    /\ UNCHANGED <<ksize, border, gx, gy, mag, momentsOf>>

\* line 164 with border false: the if body is skipped
SkipBorder ==
    /\ shape_pc = "border"
    /\ ~border
    /\ shape_pc' = "moments"
    /\ UNCHANGED <<ksize, border, img, gx, gy, mag, momentsOf>>

\* line 172: cv2.HuMoments(cv2.moments(img))
Moments ==
    /\ shape_pc = "moments"
    /\ momentsOf' = img
    /\ shape_pc' = "done"
    /\ UNCHANGED <<ksize, border, img, gx, gy, mag>>

ShapeNext ==
    \/ CvtGray /\ UNCHANGED <<rankVars, chiVars, colorVars>>
    \/ Sobel /\ UNCHANGED <<rankVars, chiVars, colorVars>>
    \/ CartToPolar /\ UNCHANGED <<rankVars, chiVars, colorVars>>
    \/ AddBorder /\ UNCHANGED <<rankVars, chiVars, colorVars>>
    \/ SkipBorder /\ UNCHANGED <<rankVars, chiVars, colorVars>>
    \/ Moments /\ UNCHANGED <<rankVars, chiVars, colorVars>>

---------------------------------------------------------------------------
(* The specifications                                                      *)

InitRank == RankInit /\ ChiIdle /\ ColorIdle /\ ShapeIdle

SpecRank == InitRank /\ [][RankNext]_vars

InitChi == ChiInit /\ RankIdle /\ ColorIdle /\ ShapeIdle

SpecChi == InitChi /\ [][ChiNext]_vars

InitColor == ColorInit /\ RankIdle /\ ChiIdle /\ ShapeIdle

SpecColor == InitColor /\ [][ColorNext]_vars

InitShape == ShapeInit /\ RankIdle /\ ChiIdle /\ ColorIdle

SpecShape == InitShape /\ [][ShapeNext]_vars

---------------------------------------------------------------------------
(* The claims about Similarity.rankings, under SpecRank            *)

\* the call has returned a ranking
Returned == rank_pc = "done" /\ ranking.err = "none"

\* every row read has a vector of the query's length
AllMatch == \A i \in 1..Len(store) : Len(store[i][2]) = Len(query_feature)

\* no two rows read share an identifier
DistinctRows ==
    \A i, j \in 1..Len(store) : store[i][1] = store[j][1] => i = j

StoreIds == {store[i][1] : i \in 1..Len(store)}

\* a <= b on (distance, identifier) pairs, read off the claim's wording
PairLeq(a, b) ==
    \/ a[1][1] * b[1][2] < b[1][1] * a[1][2]
    \/ a[1] = b[1] /\ IdOrd(a[2]) <= IdOrd(b[2])

\* the (distance, identifier) pairs of the rows of a store of distinct rows
StorePairs ==
    {<<chi2_distance(store[i][2], query_feature).value, store[i][1]>> :
        i \in 1..Len(store)}

\* s lists exactly the pairs of S in ascending order
IsAscendingListOf(s, S) ==
    /\ Len(s) = Cardinality(S)
    /\ {s[i] : i \in 1..Len(s)} = S
    /\ \A i \in 1..(Len(s) - 1) : PairLeq(s[i], s[i + 1])

\* C1: with metric chi-squared, a store of N distinct identifiers whose
\* vectors have the query's length and a limit >= 1, rankings returns the
\* first min(limit, N) elements of the ascending list of all (distance,
\* identifier) pairs.
C1_FirstLimitOfSorted ==
    (rank_pc = "done" /\ metric = "chi-squared" /\ DistinctRows /\ AllMatch)
      => /\ ranking.err = "none"
         /\ Len(ranking.value) = Min(limit, Len(store))
         /\ \E rest \in [1..(Len(store) - Len(ranking.value)) -> StorePairs] :
                IsAscendingListOf(ranking.value \o rest, StorePairs)

\* C2: under each of the four named metrics a non-empty store whose vectors
\* have the query's length is ranked: the call ends without an error and
\* every record has a distance.
C2_NamedMetricsRank ==
    (rank_pc = "done" /\ metric \in NamedMetrics /\ store # <<>> /\ AllMatch)
      => /\ ranking.err = "none"
         /\ \A id \in StoreIds : KeyIndex(results, id) # 0

\* C3: a metric that is none of the four named ones ends the call in an
\* error, whatever the store; no ranking is returned.  (Any error raised
\* counts here as the unsupported-metric error.)
C3_UnknownMetricRaises ==
    (rank_pc = "done" /\ metric \notin NamedMetrics) => ranking.err # "none"

\* C4: a record whose vector length differs from the query's ends the call
\* in an error; no ranking is returned.  (Any error raised counts here as
\* the format error.)
C4_LengthMismatchRaises ==
    (rank_pc = "done" /\ ~AllMatch) => ranking.err # "none"

\* C5: the returned list is ascending by distance and entries of equal
\* distance are ascending by identifier: each adjacent pair (d1, id1),
\* (d2, id2) has d1 < d2, or d1 = d2 and id1 < id2.
C5_ResultAscending ==
    Returned =>
      \A i \in 1..(Len(ranking.value) - 1) :
        LET a == ranking.value[i]
            b == ranking.value[i + 1]
        IN  \/ a[1][1] * b[1][2] < b[1][1] * a[1][2]
            \/ a[1] = b[1] /\ IdOrd(a[2]) < IdOrd(b[2])

\* a returned list of three or more distinct identifiers whose second and
\* third distances tie, after a strictly closer first entry
C5_Witness ==
    /\ Returned
    /\ Len(ranking.value) >= 2
    /\ ranking.value[1][1] = ranking.value[2][1]
    /\ ranking.value[1][2] # ranking.value[2][2]
    /\ \E i, j \in 1..Len(store) :
         chi2_distance(store[i][2], query_feature).value
           # chi2_distance(store[j][2], query_feature).value

\* C7: an empty store gives an empty list and no error, for every query
\* vector and every limit >= 1.
C7_EmptyStoreEmptyRanking ==
    (rank_pc = "done" /\ store = <<>>)
      => ranking = [err |-> "none", value |-> <<>>]

\* the call returned from an empty store under the largest limit
C7_Witness ==
    /\ Returned /\ store = <<>> /\ limit = MaxLimit /\ metric = "chi-squared"

\* the last row of the store with identifier id
LastRow(id) ==
    store[CHOOSE i \in 1..Len(store) :
            /\ store[i][1] = id
            /\ \A j \in 1..Len(store) : store[j][1] = id => j <= i]

\* C8: with several records of one identifier, results keeps one score per
\* identifier, the distance of the last such record in scan order; the
\* scored pairs hold one entry per distinct identifier and no identifier
\* appears twice in the returned list.
C8_OneScorePerIdLastWins ==
    (rank_pc \in {"scan", "done"} /\ ranking.err = "none")
      => /\ Len(results) = Cardinality(StoreIds)
         /\ \A id \in StoreIds :
              /\ Cardinality({i \in 1..Len(results) : results[i][1] = id}) = 1
              /\ \A i \in 1..Len(results) :
                   results[i][1] = id =>
                     results[i][2]
                       = chi2_distance(LastRow(id)[2], query_feature).value
         /\ \A i, j \in 1..Len(ranking.value) :
              ranking.value[i][2] = ranking.value[j][2] => i = j

\* an identifier read twice with different distances shows up in the
\* returned list with the later distance
C8_Witness ==
    /\ Returned
    /\ \E i, j \in 1..Len(store), k \in 1..Len(ranking.value) :
         /\ i < j
         /\ store[i][1] = store[j][1]
         /\ chi2_distance(store[i][2], query_feature).value
              # chi2_distance(store[j][2], query_feature).value
         /\ ranking.value[k][2] = store[j][1]
         /\ ranking.value[k][1]
              = chi2_distance(store[j][2], query_feature).value

---------------------------------------------------------------------------
(* The claim about Similarity.chi2_distance, under SpecChi         *)

\* no term of the sum over (a, b) divides by zero
NoZeroDenominator(a, b) ==
    \A i \in 1..Min(Len(a), Len(b)) : a[i] + b[i] + EpsUnits # 0

---------------------------------------------------------------------------
(* The claim about the region masks, under SpecColor               *)

\* C9: the five region masks (the four corners less the ellipse, and the
\* ellipse) are pairwise disjoint for every image size.
C9_MasksPairwiseDisjoint ==
    color_pc = "done"
      => \A i, j \in 1..Len(masks) : i # j => masks[i] \cap masks[j] = {}

---------------------------------------------------------------------------
(* The claim about shape_descriptor, under SpecShape               *)

\* C10: for both values of border the moments are computed from the
\* gradient-magnitude image: padded by 15 pixels of value 255 when border
\* is true, unpadded when it is false; never from the grayscale image.
C10_MomentsOfMagnitude ==
    shape_pc = "done"
      => /\ momentsOf.kind = "magnitude"
         /\ momentsOf.pad = (IF border THEN 15 ELSE 0)
         /\ momentsOf.padValue = (IF border THEN 255 ELSE 0)

===========================================================================
